---- MODULE Spec2Model ----
(***************************************************************************)
(* Model of the transaction indexer: the live EVM crawler                  *)
(* (EvmCrawlerService), the fallback verifier (EvmFallbackCrawlerService), *)
(* the transactions table with its unique index on transaction_hash, the   *)
(* checkpoint key last_processed_block:{chainId} and the chain as the RPC  *)
(* endpoints report it.                                                    *)
(***************************************************************************)
EXTENDS Integers, Sequences, FiniteSets, TLC

\* ---- bounds of the model -------------------------------------------------
MaxHeight == 3          \* highest block the chain reaches
Lag == 1                \* how far an endpoint's head may trail the chain head
BatchSize == 2          \* chain.batchSize, scaled down
ReorgDepth == 2         \* chain.reorgDepth, scaled down
TableReq == 2           \* requiredConfirmations of CHAIN_CONFIGS, scaled down
OtherReq == 3           \* requiredConfirmations of another deployment's config
MaxEndpoints == 3       \* longest rpcUrls list handed to callRpc
MaxTasks == 2           \* verifier calls that are followed await by await
MaxRaw == 6             \* largest amount argument of a Deposit/Withdraw log
MaxDecimals == 3        \* largest decimals argument of a Deposit/Withdraw log

\* ---- program constants ---------------------------------------------------
StartBlock == 1         \* chain.startBlock, scaled down
Nil == -1               \* null: no reorg found, no checkpoint stored
NoHash == 0             \* '' : blockHash of a block the endpoint did not return
DefaultDecimals == 2    \* 18, the default of token_decimals and of the parsers, scaled down
AmountScale == 2        \* 18, the scale of the numeric(65,18) column amount, scaled down
Undefined == -1         \* undefined: a field the parser did not extract

ChainId == "A"          \* chainId of the chain the crawler runs on
OtherChainId == "B"     \* another chain of CHAIN_CONFIGS, served by the verifier only
ReqChoices == {TableReq, OtherReq}

VARIABLES
    chainHead,              \* height of the canonical chain of ChainId
    fork,                   \* 0, or the height from which blocks were replaced
    table,                  \* rows of the transactions table
    redis,                  \* value of last_processed_block:{chainId}, or Nil
    requiredConfirmations,  \* this.chain.requiredConfirmations
    isRunning,              \* this.isRunning
    lastProcessedBlock,     \* this.lastProcessedBlock
    blockMap,               \* this.blockMap: block number -> block hash
    pc,                     \* position of the crawl loop
    latestBlock,            \* crawl(): latestBlock
    fromBlock,              \* crawl(): fromBlock
    toBlock,                \* crawl(): toBlock
    reorgBlock,             \* crawl(): reorgBlock
    events,                 \* crawl(): events of the window being processed
    sinceDelete,            \* history: hashes the verifier inserted since the rollback's delete
    deletedRows,            \* history: hashes the rollback's delete removed
    upserted,               \* history: the batch's insert hit the unique index
    persisted,              \* history: the batch's transaction changed the table
    parked,                 \* a second crawl() invocation, suspended at an await
    stopped,                \* history: stop() was called and start() not since
    rpcUrls,                \* callRpc: what f does on the provider of each url
    rpcAt,                  \* callRpc: position of the for loop in rpcUrls
    lastError,              \* callRpc: lastError, as the endpoint that threw it
    rpcCalled,              \* history: the endpoints f was called on, in order
    rpcResult,              \* callRpc: not finished, returned or thrown
    calls,                  \* the calls of checkAndSaveMissingTransaction in flight
    amountCase,             \* one log on its way from its arguments to its row
    probed                  \* the endpoint and the failing call of a probe followed on its own

vars == <<chainHead, fork, table, redis, requiredConfirmations, isRunning,
          lastProcessedBlock, blockMap, pc, latestBlock, fromBlock, toBlock,
          reorgBlock, events, sinceDelete, deletedRows, upserted, persisted,
          parked, stopped, rpcUrls, rpcAt, lastError, rpcCalled,
          rpcResult, calls, amountCase, probed>>

\* The second invocation and the stop request: only start(), stop() and the
\* scheduler's switch between the two invocations touch them.
lifecycle == <<parked, stopped>>

\* The call of callRpc that is followed on its own.
rpcVars == <<rpcUrls, rpcAt, lastError, rpcCalled, rpcResult>>

\* The verifier calls that are followed await by await.
verifierVars == <<calls>>

\* The log whose amount is followed on its own.
amountVars == <<amountCase>>

\* The call of checkForReorg that is followed on its own.
probeVars == <<probed>>

history == <<sinceDelete, deletedRows, upserted, persisted>>

crawlerVars == <<requiredConfirmations, isRunning, lastProcessedBlock, blockMap, pc,
                 latestBlock, fromBlock, toBlock, reorgBlock, events>>

Min(a, b) == IF a <= b THEN a ELSE b
Max(a, b) == IF a >= b THEN a ELSE b

\* ---- the chain as the endpoints report it ---------------------------------
\* A block at height h is the original block (version 1) or, at and above
\* the fork height, its replacement (version 2). The chain is reorganised
\* at most once, at a height of ForkPoints.
Version(h) == IF fork # 0 /\ h >= fork THEN 2 ELSE 1
Hash(h) == 10 * h + Version(h)

\* Heads an endpoint may report: the chain head or up to Lag blocks behind.
Views == {v \in 1..chainHead : v >= chainHead - Lag}

\* provider.getBlock(n) on an endpoint whose head is view: the hash, or
\* NoHash when the endpoint returns null.
GetBlock(n, view) == IF n >= 1 /\ n <= view THEN Hash(n) ELSE NoHash

\* Deposit/Withdraw logs of the watched contract: transaction "x" is in
\* block 1 of both histories; "y" is in block 2 of the original history and
\* in block 3 of the replacing one.
TxAt(h, v) ==
    IF h = 1 THEN <<"x">>
    ELSE IF (h = 2 /\ v = 1) \/ (h = 3 /\ v = 2) THEN <<"y">>
    ELSE <<>>

ForkPoints == {2}

RECURSIVE MapEvents(_, _)
MapEvents(txs, h) ==
    IF txs = <<>> THEN <<>>
    ELSE <<[transactionHash |-> Head(txs), blockNumber |-> h, blockHash |-> Hash(h)]>>
             \o MapEvents(Tail(txs), h)

\* queryFilter(['Deposit','Withdraw'], from, to): the parsed logs in block order.
RECURSIVE QueryFilter(_, _, _)
QueryFilter(from, to, view) ==
    IF from > to \/ from > view THEN <<>>
    ELSE MapEvents(TxAt(from, Version(from)), from) \o QueryFilter(from + 1, to, view)

Mine ==
    /\ chainHead < MaxHeight
    /\ chainHead' = chainHead + 1
    /\ UNCHANGED <<fork, table, redis>>
    /\ UNCHANGED history
    /\ UNCHANGED crawlerVars
    /\ UNCHANGED lifecycle
    /\ UNCHANGED rpcVars
    /\ UNCHANGED amountVars
    /\ UNCHANGED probeVars
    /\ UNCHANGED verifierVars

Reorg ==
    /\ fork = 0
    /\ \E f \in ForkPoints : f <= chainHead /\ fork' = f
    /\ UNCHANGED <<chainHead, table, redis>>
    /\ UNCHANGED history
    /\ UNCHANGED crawlerVars
    /\ UNCHANGED lifecycle
    /\ UNCHANGED rpcVars
    /\ UNCHANGED amountVars
    /\ UNCHANGED probeVars
    /\ UNCHANGED verifierVars

\* The chain is reorganised from the crawler's start block on.
ReorgAtStartBlock ==
    /\ fork = 0
    /\ fork' = StartBlock
    /\ UNCHANGED <<chainHead, table, redis>>
    /\ UNCHANGED history
    /\ UNCHANGED crawlerVars
    /\ UNCHANGED lifecycle
    /\ UNCHANGED rpcVars
    /\ UNCHANGED amountVars
    /\ UNCHANGED probeVars
    /\ UNCHANGED verifierVars

\* ---- the transactions table -----------------------------------------------
Hashes(tbl) == {r.transactionHash : r \in tbl}
RowOf(tbl, h) == CHOOSE r \in tbl : r.transactionHash = h

Status(confirmations, required) ==
    IF confirmations >= required THEN "CONFIRMED" ELSE "PENDING"

TypeOK ==
    /\ chainHead \in 1..MaxHeight
    /\ fork \in {0} \cup ForkPoints
    /\ redis \in {Nil} \cup (0..MaxHeight)
    /\ requiredConfirmations \in ReqChoices
    /\ isRunning \in BOOLEAN
    /\ lastProcessedBlock \in 0..MaxHeight

\* The locals of the crawl() invocation that is not suspended, and the
\* locals of an invocation that has returned or was never made.
Locals ==
    [pc |-> pc, latestBlock |-> latestBlock, fromBlock |-> fromBlock,
     toBlock |-> toBlock, reorgBlock |-> reorgBlock, events |-> events,
     sinceDelete |-> sinceDelete, deletedRows |-> deletedRows,
     upserted |-> upserted, persisted |-> persisted]

Idle ==
    [pc |-> "off", latestBlock |-> 0, fromBlock |-> 0, toBlock |-> 0,
     reorgBlock |-> Nil, events |-> <<>>, sinceDelete |-> {}, deletedRows |-> {},
     upserted |-> FALSE, persisted |-> FALSE]

\* The tasks the API runs checkAndSaveMissingTransaction in, one call each,
\* and a task whose call has not arrived.
Tasks == 1..MaxTasks

NoCall ==
    [pc |-> "idle", chainId |-> "", transactionHash |-> "", logs |-> 0,
     entity |-> <<>>, savedTransactions |-> <<>>, rpc |-> FALSE,
     found |-> FALSE, transaction |-> <<>>]

\* No probe is being followed.
NoProbe == [view |-> 0, failAt |-> 0]

\* No log is being followed.
NoCase == [stage |-> "none", args |-> <<>>, parsed |-> <<>>, row |-> <<>>]

\* callRpc before its first iteration.
NoResult == [kind |-> "none", endpoint |-> 0]

InitCrawler ==
    /\ chainHead = 1
    /\ fork = 0
    /\ table = {}
    /\ redis = Nil
    /\ requiredConfirmations = TableReq
    /\ isRunning = FALSE
    /\ lastProcessedBlock = 0
    /\ blockMap = <<>>
    /\ pc = "off"
    /\ latestBlock = 0
    /\ fromBlock = 0
    /\ toBlock = 0
    /\ reorgBlock = Nil
    /\ events = <<>>
    /\ sinceDelete = {}
    /\ deletedRows = {}
    /\ upserted = FALSE
    /\ persisted = FALSE
    /\ parked = Idle
    /\ stopped = FALSE
    /\ calls = [t \in Tasks |-> NoCall]

InitCall ==
    /\ rpcUrls = <<>>
    /\ rpcAt = 1
    /\ lastError = 0
    /\ rpcCalled = <<>>
    /\ rpcResult = NoResult

Init ==
    /\ InitCrawler
    /\ InitCall
    /\ amountCase = NoCase
    /\ probed = NoProbe

\* A table without the unique index: no insert raises a conflict.
UniqueViolationOff(tbl, h) == FALSE

\* The unique index on transaction_hash: an insert of hash h into tbl
\* raises error 23505.
UniqueViolation(tbl, h) == h \in Hashes(tbl)

\* ---- EvmCrawlerService ---------------------------------------------------
\* loadLastProcessedBlock: the value it returns and the value it leaves in
\* the checkpoint store, when neither the store nor the table read throws.
MaxBlockNumber(tbl) ==
    LET own == {r.blockNumber : r \in {q \in tbl : q.chainId = ChainId}}
    IN  IF own = {} THEN StartBlock - 1
        ELSE CHOOSE b \in own : \A c \in own : c <= b

loadLastProcessedBlock ==
    IF redis # Nil THEN [value |-> redis, store |-> redis]
    ELSE [value |-> MaxBlockNumber(table), store |-> MaxBlockNumber(table)]

\* loadLastProcessedBlock, lines 389-392: redis.get, the table read or
\* redis.set throws and nothing is written; or, on a miss, the transaction
\* fails at its commit, after redis.set has written the table's maximum.
LoadFailures ==
    {[value |-> StartBlock - 1, store |-> redis]}
      \cup (IF redis = Nil
            THEN {[value |-> StartBlock - 1, store |-> MaxBlockNumber(table)]}
            ELSE {})

\* start(chainConfig): the configuration is assigned before the isRunning
\* test; when not running, the checkpoint is loaded and crawl() begins. A
\* crawl() that begins while an earlier invocation is still inside its cycle
\* or waits for its restart timer runs next to it: the earlier invocation is
\* suspended at its await.
StartLoading(req, loaded) ==
    /\ requiredConfirmations' = req
    /\ stopped' = FALSE
    /\ IF isRunning
       THEN UNCHANGED <<isRunning, lastProcessedBlock, redis, pc, latestBlock,
                        fromBlock, toBlock, reorgBlock, events, history, parked>>
       ELSE /\ lastProcessedBlock' = loaded.value
            /\ redis' = loaded.store
            /\ isRunning' = TRUE
            /\ pc' = "head"
            /\ IF pc \in {"off", "retry"}
               THEN UNCHANGED <<latestBlock, fromBlock, toBlock, reorgBlock,
                                events, history, parked>>
               ELSE /\ parked.pc = "off"
                    /\ parked' = Locals
                    /\ latestBlock' = 0 /\ fromBlock' = 0 /\ toBlock' = 0
                    /\ reorgBlock' = Nil /\ events' = <<>>
                    /\ sinceDelete' = {} /\ deletedRows' = {}
                    /\ upserted' = FALSE /\ persisted' = FALSE
    /\ UNCHANGED <<chainHead, fork, table, blockMap>>
    /\ UNCHANGED rpcVars
    /\ UNCHANGED amountVars
    /\ UNCHANGED probeVars
    /\ UNCHANGED verifierVars

\* start() when the checkpoint store and the table can be read.
StartWith(req) == StartLoading(req, loadLastProcessedBlock)

Start == \E req \in ReqChoices : StartWith(req)

\* start() when loadLastProcessedBlock fails.
StartLoadFails ==
    /\ ~isRunning
    /\ \E req \in ReqChoices, loaded \in LoadFailures : StartLoading(req, loaded)

\* The process exits and is started again: the fields of the service are
\* those of a new instance; the table and the checkpoint store are kept.
ProcessRestart ==
    /\ requiredConfirmations' = TableReq
    /\ isRunning' = FALSE
    /\ lastProcessedBlock' = 0
    /\ blockMap' = <<>>
    /\ pc' = "off"
    /\ latestBlock' = 0 /\ fromBlock' = 0 /\ toBlock' = 0
    /\ reorgBlock' = Nil /\ events' = <<>>
    /\ sinceDelete' = {} /\ deletedRows' = {}
    /\ upserted' = FALSE /\ persisted' = FALSE
    /\ parked' = Idle
    /\ stopped' = FALSE
    /\ calls' = [t \in Tasks |-> NoCall]
    /\ UNCHANGED <<chainHead, fork, table, redis>>
    /\ UNCHANGED rpcVars
    /\ UNCHANGED amountVars
    /\ UNCHANGED probeVars

\* start() called with the configuration the crawler already has.
StartSame == StartWith(requiredConfirmations)

\* stop().
stop ==
    /\ isRunning' = FALSE
    /\ stopped' = TRUE
    /\ UNCHANGED <<chainHead, fork, table, redis, requiredConfirmations,
                   lastProcessedBlock, blockMap, pc, latestBlock, fromBlock,
                   toBlock, reorgBlock, events, history, parked>>
    /\ UNCHANGED rpcVars
    /\ UNCHANGED amountVars
    /\ UNCHANGED probeVars
    /\ UNCHANGED verifierVars

\* The event loop: the running invocation is suspended at its await and the
\* other one continues from the await it was suspended at.
Interleave ==
    /\ parked.pc # "off"
    /\ parked' = Locals
    /\ pc' = parked.pc
    /\ latestBlock' = parked.latestBlock
    /\ fromBlock' = parked.fromBlock
    /\ toBlock' = parked.toBlock
    /\ reorgBlock' = parked.reorgBlock
    /\ events' = parked.events
    /\ sinceDelete' = parked.sinceDelete
    /\ deletedRows' = parked.deletedRows
    /\ upserted' = parked.upserted
    /\ persisted' = parked.persisted
    /\ UNCHANGED <<chainHead, fork, table, redis, requiredConfirmations, isRunning,
                   lastProcessedBlock, blockMap, stopped>>
    /\ UNCHANGED rpcVars
    /\ UNCHANGED amountVars
    /\ UNCHANGED probeVars
    /\ UNCHANGED verifierVars

\* A window that always spans batchSize blocks.
WindowEndUncapped(from, latest) == from + BatchSize - 1

\* crawl(), lines 82, 92 and 124: the end of the window that starts at from.
WindowEnd(from, latest) == Min(from + BatchSize - 1, latest)

\* crawl(), lines 79-82: the head query and the first window.
GetLatestBlockNumber ==
    /\ pc = "head"
    /\ \E view \in Views : latestBlock' = view
    /\ fromBlock' = lastProcessedBlock + 1
    /\ toBlock' = WindowEnd(lastProcessedBlock + 1, latestBlock')
    /\ pc' = "probe"
    /\ UNCHANGED <<chainHead, fork, table, redis, requiredConfirmations, isRunning,
                   lastProcessedBlock, blockMap, reorgBlock, events, history>>
    /\ UNCHANGED lifecycle
    /\ UNCHANGED rpcVars
    /\ UNCHANGED amountVars
    /\ UNCHANGED probeVars
    /\ UNCHANGED verifierVars

\* A walk that returns the first mismatching height it meets.
RECURSIVE ProbeFirstMismatch(_, _, _, _)
ProbeFirstMismatch(i, deepestReorg, view, failAt) ==
    IF i >= ReorgDepth THEN deepestReorg
    ELSE LET blockNumber == lastProcessedBlock - i IN
         IF blockNumber < StartBlock THEN deepestReorg
         ELSE IF blockNumber \notin DOMAIN blockMap
              THEN ProbeFirstMismatch(i + 1, deepestReorg, view, failAt)
         ELSE IF i = failAt THEN deepestReorg
         ELSE IF GetBlock(blockNumber, view) # blockMap[blockNumber]
              THEN blockNumber
         ELSE deepestReorg

\* checkForReorg: walks back from lastProcessedBlock; failAt is the iteration
\* whose getBlock call throws (ReorgDepth: none does).
RECURSIVE ProbeFrom(_, _, _, _)
ProbeFrom(i, deepestReorg, view, failAt) ==
    IF i >= ReorgDepth THEN deepestReorg
    ELSE LET blockNumber == lastProcessedBlock - i IN
         IF blockNumber < StartBlock THEN deepestReorg
         ELSE IF blockNumber \notin DOMAIN blockMap
              THEN ProbeFrom(i + 1, deepestReorg, view, failAt)
         ELSE IF i = failAt THEN deepestReorg
         ELSE IF GetBlock(blockNumber, view) # blockMap[blockNumber]
              THEN ProbeFrom(i + 1, blockNumber, view, failAt)
         ELSE deepestReorg

\* checkForReorg served by an endpoint at head view, with the getBlock call
\* of iteration failAt failing.
checkForReorgOn(view, failAt) ==
    /\ pc = "probe"
    /\ reorgBlock' = ProbeFrom(0, Nil, view, failAt)
    /\ pc' = IF reorgBlock' # Nil THEN "rollback" ELSE "loop"
    /\ UNCHANGED <<chainHead, fork, table, redis, requiredConfirmations, isRunning,
                   lastProcessedBlock, blockMap, latestBlock, fromBlock, toBlock,
                   events, history>>
    /\ UNCHANGED lifecycle
    /\ UNCHANGED rpcVars
    /\ UNCHANGED amountVars
    /\ UNCHANGED verifierVars

checkForReorg ==
    /\ \E view \in Views, failAt \in 0..ReorgDepth : checkForReorgOn(view, failAt)
    /\ UNCHANGED probeVars

\* The probe on its own: the crawler is at the call of checkForReorg with a
\* checkpoint and a cache that earlier cycles can have left, on a chain that
\* was reorganised or not.
CachedHashes(h) ==
    {10 * h + 1} \cup (IF \E f \in ForkPoints : h >= f THEN {10 * h + 2} ELSE {})

Caches ==
    UNION {{bm \in [d -> 11..(10 * MaxHeight + 2)] :
               \A h \in d : bm[h] \in CachedHashes(h)} : d \in SUBSET (1..MaxHeight)}

InitProbe ==
    /\ chainHead \in 1..MaxHeight
    /\ fork \in {0} \cup {f \in ForkPoints : f <= chainHead}
    /\ table = {}
    /\ lastProcessedBlock \in (StartBlock - 1)..chainHead
    /\ redis = lastProcessedBlock
    /\ requiredConfirmations = TableReq
    /\ isRunning = TRUE
    /\ blockMap \in Caches
    /\ pc = "probe"
    /\ latestBlock = chainHead
    /\ fromBlock = lastProcessedBlock + 1
    /\ toBlock = WindowEnd(lastProcessedBlock + 1, latestBlock)
    /\ reorgBlock = Nil
    /\ events = <<>>
    /\ sinceDelete = {} /\ deletedRows = {}
    /\ upserted = FALSE /\ persisted = FALSE
    /\ parked = Idle /\ stopped = FALSE
    /\ calls = [t \in Tasks |-> NoCall]
    /\ InitCall
    /\ amountCase = NoCase
    /\ probed = NoProbe

ProbeFollowed ==
    \E view \in Views, failAt \in 0..ReorgDepth :
        /\ checkForReorgOn(view, failAt)
        /\ probed' = [view |-> view, failAt |-> failAt]

NextProbe == ProbeFollowed

SpecProbe == InitProbe /\ [][NextProbe]_vars

\* rollbackReorg, lines 259-270: the delete transaction, then the cache drop.
\* A delete with MoreThan in place of MoreThanOrEqual.
DeleteAbove(tbl, r) ==
    {q \in tbl : ~(q.chainId = ChainId /\ q.blockNumber > r)}

DeleteFrom(tbl, r) ==
    {q \in tbl : ~(q.chainId = ChainId /\ q.blockNumber >= r)}

DropFrom(bm, r) ==
    [n \in {m \in DOMAIN bm : m < r} |-> bm[n]]

RollbackDelete ==
    /\ pc = "rollback"
    /\ table' = DeleteFrom(table, reorgBlock)
    /\ blockMap' = DropFrom(blockMap, reorgBlock)
    /\ sinceDelete' = {}
    /\ deletedRows' = Hashes(table) \ Hashes(table')
    /\ UNCHANGED <<upserted, persisted>>
    /\ pc' = "rewind"
    /\ UNCHANGED <<chainHead, fork, redis, requiredConfirmations, isRunning,
                   lastProcessedBlock, latestBlock, fromBlock, toBlock, reorgBlock,
                   events>>
    /\ UNCHANGED lifecycle
    /\ UNCHANGED rpcVars
    /\ UNCHANGED amountVars
    /\ UNCHANGED probeVars
    /\ UNCHANGED verifierVars

\* rollbackReorg, lines 271-272: the checkpoint write, then the field.
RollbackRewind ==
    /\ pc = "rewind"
    /\ redis' = reorgBlock - 1
    /\ lastProcessedBlock' = reorgBlock - 1
    /\ pc' = "rolled"
    /\ UNCHANGED <<chainHead, fork, table, requiredConfirmations, isRunning,
                   blockMap, latestBlock, fromBlock, toBlock, reorgBlock, events, history>>
    /\ UNCHANGED lifecycle
    /\ UNCHANGED rpcVars
    /\ UNCHANGED amountVars
    /\ UNCHANGED probeVars
    /\ UNCHANGED verifierVars

\* crawl(), lines 91-92: the window restarts at the reorg block.
Resume ==
    /\ pc = "rolled"
    /\ fromBlock' = reorgBlock
    /\ toBlock' = WindowEnd(reorgBlock, latestBlock)
    /\ reorgBlock' = Nil
    /\ sinceDelete' = {}
    /\ deletedRows' = {}
    /\ UNCHANGED <<upserted, persisted>>
    /\ pc' = "loop"
    /\ UNCHANGED <<chainHead, fork, table, redis, requiredConfirmations, isRunning,
                   lastProcessedBlock, blockMap, latestBlock, events>>
    /\ UNCHANGED lifecycle
    /\ UNCHANGED rpcVars
    /\ UNCHANGED amountVars
    /\ UNCHANGED probeVars
    /\ UNCHANGED verifierVars

\* crawl(), line 100: fetchEvents for the window.
fetchEvents ==
    /\ pc = "loop"
    /\ fromBlock <= latestBlock
    /\ \E view \in Views : events' = QueryFilter(fromBlock, toBlock, view)
    /\ pc' = "blocks"
    /\ UNCHANGED <<chainHead, fork, table, redis, requiredConfirmations, isRunning,
                   lastProcessedBlock, blockMap, latestBlock, fromBlock, toBlock,
                   reorgBlock, history>>
    /\ UNCHANGED lifecycle
    /\ UNCHANGED rpcVars
    /\ UNCHANGED amountVars
    /\ UNCHANGED probeVars
    /\ UNCHANGED verifierVars

\* saveBlockMap: the blocks to fetch are the event blocks and the blocks of
\* the window inside the reorg window that the cache does not hold.
EventBlockNumbers(evs) == {evs[i].blockNumber : i \in DOMAIN evs}

BlockNumbers(evs) ==
    {b \in EventBlockNumbers(evs) \cup
           (Max(fromBlock, latestBlock - ReorgDepth + 1)..toBlock) :
        b \notin DOMAIN blockMap}

saveBlockMap ==
    /\ pc = "blocks"
    /\ \E view \in Views :
          blockMap' =
             [n \in DOMAIN blockMap \cup
                    {b \in BlockNumbers(events) : GetBlock(b, view) # NoHash} |->
                 IF n \in DOMAIN blockMap THEN blockMap[n] ELSE GetBlock(n, view)]
    /\ pc' = "persist"
    /\ UNCHANGED <<chainHead, fork, table, redis, requiredConfirmations, isRunning,
                   lastProcessedBlock, latestBlock, fromBlock, toBlock, reorgBlock,
                   events, history>>
    /\ UNCHANGED lifecycle
    /\ UNCHANGED rpcVars
    /\ UNCHANGED amountVars
    /\ UNCHANGED probeVars
    /\ UNCHANGED verifierVars

\* saveState, lines 286-304: every row of the batch gets the confirmations
\* computed from the first event of the batch.
Transaction(ev, confirmations) ==
    [transactionHash |-> ev.transactionHash,
     chainId |-> ChainId,
     blockNumber |-> ev.blockNumber,
     blockHash |-> IF ev.blockNumber \in DOMAIN blockMap
                   THEN blockMap[ev.blockNumber] ELSE NoHash,
     confirmations |-> confirmations,
     requireConfirmations |-> requiredConfirmations,
     status |-> Status(confirmations, requiredConfirmations)]

BatchConfirmations(evs, latest) == latest - evs[1].blockNumber + 1

Transactions(evs, latest) ==
    [i \in DOMAIN evs |-> Transaction(evs[i], BatchConfirmations(evs, latest))]

\* manager.save of the new rows fails with a conflict when a hash is in the
\* table already or occurs twice in the batch.
SaveConflicts(tbl, txs) ==
    \/ \E i \in DOMAIN txs : UniqueViolation(tbl, txs[i].transactionHash)
    \/ \E i, j \in DOMAIN txs : i # j /\ txs[i].transactionHash = txs[j].transactionHash

\* manager.upsert with conflictPaths transaction_hash: the row with the
\* hash takes the values of the transaction, or the transaction is inserted.
Upsert(tbl, tx) ==
    {q \in tbl : q.transactionHash # tx.transactionHash} \cup {tx}

RECURSIVE UpsertAll(_, _)
UpsertAll(tbl, txs) ==
    IF txs = <<>> THEN tbl ELSE UpsertAll(Upsert(tbl, Head(txs)), Tail(txs))

SaveNew(tbl, evs, latest) ==
    IF evs = <<>> THEN tbl
    ELSE LET txs == Transactions(evs, latest) IN
         IF SaveConflicts(tbl, txs) THEN UpsertAll(tbl, txs)
         ELSE tbl \cup {txs[i] : i \in DOMAIN txs}

\* A refresh whose query selects no row.
NeedsUpdateNone(q) == FALSE

\* saveState, lines 328-352: the confirmation refresh.
NeedsUpdate(q) ==
    q.chainId = ChainId /\ q.confirmations < requiredConfirmations

\* A refresh that counts one more confirmation per batch instead of
\* recomputing the value from the head.
RefreshRowCounting(q, latest) ==
    LET confirmations == Min(q.confirmations + 1, q.requireConfirmations)
    IN  [q EXCEPT !.confirmations = confirmations,
                  !.status = Status(confirmations, requiredConfirmations)]

RefreshRow(q, latest) ==
    LET confirmations == Min(latest - q.blockNumber + 1, q.requireConfirmations)
    IN  [q EXCEPT !.confirmations = confirmations,
                  !.status = Status(confirmations, requiredConfirmations)]

\* A transaction that commits the new rows without the refresh.
RefreshSkipped(tbl, latest) == tbl

Refresh(tbl, latest) ==
    {IF NeedsUpdate(q) THEN RefreshRow(q, latest) ELSE q : q \in tbl}

\* A persist transaction that returns without having written anything.
PersistNothing(tbl, evs, latest) == tbl

Persist(tbl, evs, latest) == Refresh(SaveNew(tbl, evs, latest), latest)

saveState ==
    /\ pc = "persist"
    /\ table' = Persist(table, events, latestBlock)
    /\ upserted' = (events # <<>> /\
                      SaveConflicts(table, Transactions(events, latestBlock)))
    /\ persisted' = (table' # table)
    /\ pc' = "advance"
    /\ UNCHANGED <<chainHead, fork, redis, requiredConfirmations, isRunning,
                   lastProcessedBlock, blockMap, latestBlock, fromBlock, toBlock,
                   reorgBlock, events, sinceDelete, deletedRows>>
    /\ UNCHANGED lifecycle
    /\ UNCHANGED rpcVars
    /\ UNCHANGED amountVars
    /\ UNCHANGED probeVars
    /\ UNCHANGED verifierVars

\* crawl(), lines 112-126: the checkpoint write, the cache trim, the next window.
Trim(bm, threshold) ==
    [n \in {m \in DOMAIN bm : m > threshold} |-> bm[n]]

Advance ==
    /\ pc = "advance"
    /\ redis' = toBlock
    /\ lastProcessedBlock' = toBlock
    /\ blockMap' = Trim(blockMap, latestBlock - ReorgDepth)
    /\ fromBlock' = toBlock + 1
    /\ toBlock' = WindowEnd(toBlock + 1, latestBlock)
    /\ events' = <<>>
    /\ upserted' = FALSE /\ persisted' = FALSE
    /\ pc' = "loop"
    /\ UNCHANGED <<chainHead, fork, table, requiredConfirmations, isRunning,
                   latestBlock, reorgBlock, sinceDelete, deletedRows>>
    /\ UNCHANGED lifecycle
    /\ UNCHANGED rpcVars
    /\ UNCHANGED amountVars
    /\ UNCHANGED probeVars
    /\ UNCHANGED verifierVars

\* crawl(), lines 129-134: the cycle is complete; the restart timer is set.
CycleCompleted ==
    /\ pc = "loop"
    /\ fromBlock > latestBlock
    /\ pc' = "restart"
    /\ latestBlock' = 0 /\ fromBlock' = 0 /\ toBlock' = 0
    /\ UNCHANGED <<chainHead, fork, table, redis, requiredConfirmations, isRunning,
                   lastProcessedBlock, blockMap, reorgBlock, events, history>>
    /\ UNCHANGED lifecycle
    /\ UNCHANGED rpcVars
    /\ UNCHANGED amountVars
    /\ UNCHANGED probeVars
    /\ UNCHANGED verifierVars

RestartTimer ==
    /\ pc = "restart"
    /\ isRunning' = TRUE
    /\ pc' = "head"
    /\ UNCHANGED <<chainHead, fork, table, redis, requiredConfirmations,
                   lastProcessedBlock, blockMap, latestBlock, fromBlock, toBlock,
                   reorgBlock, events, history>>
    /\ UNCHANGED lifecycle
    /\ UNCHANGED rpcVars
    /\ UNCHANGED amountVars
    /\ UNCHANGED probeVars
    /\ UNCHANGED verifierVars

\* crawl(), lines 135-139: a step of the cycle throws - the head query, the
\* rollback's delete or checkpoint write, the log query, the block fetch, the
\* persist transaction (rolled back) or the checkpoint write.
Throws ==
    \/ pc \in {"head", "rollback", "rewind", "persist", "advance"}
    \/ pc = "loop" /\ fromBlock <= latestBlock
    \/ pc = "blocks" /\ BlockNumbers(events) # {}

\* A catch block that leaves isRunning set.
CycleErrorKeepsRunning ==
    /\ Throws
    /\ pc' = "retry"
    /\ latestBlock' = 0 /\ fromBlock' = 0 /\ toBlock' = 0
    /\ reorgBlock' = Nil /\ events' = <<>>
    /\ sinceDelete' = {} /\ deletedRows' = {}
    /\ upserted' = FALSE /\ persisted' = FALSE
    /\ UNCHANGED <<chainHead, fork, table, redis, requiredConfirmations, isRunning,
                   lastProcessedBlock, blockMap>>
    /\ UNCHANGED lifecycle
    /\ UNCHANGED rpcVars
    /\ UNCHANGED amountVars
    /\ UNCHANGED probeVars
    /\ UNCHANGED verifierVars

CycleError ==
    /\ Throws
    /\ isRunning' = FALSE
    /\ pc' = "retry"
    /\ latestBlock' = 0 /\ fromBlock' = 0 /\ toBlock' = 0
    /\ reorgBlock' = Nil /\ events' = <<>>
    /\ sinceDelete' = {} /\ deletedRows' = {}
    /\ upserted' = FALSE /\ persisted' = FALSE
    /\ UNCHANGED <<chainHead, fork, table, redis, requiredConfirmations,
                   lastProcessedBlock, blockMap>>
    /\ UNCHANGED lifecycle
    /\ UNCHANGED rpcVars
    /\ UNCHANGED amountVars
    /\ UNCHANGED probeVars
    /\ UNCHANGED verifierVars

\* crawl(), line 138 and lines 70-75: the retry timer calls crawl(), which
\* returns at once when another invocation has set isRunning.
RetryTimer ==
    /\ pc = "retry"
    /\ isRunning' = TRUE
    /\ pc' = IF isRunning THEN "off" ELSE "head"
    /\ UNCHANGED <<chainHead, fork, table, redis, requiredConfirmations,
                   lastProcessedBlock, blockMap, latestBlock, fromBlock, toBlock,
                   reorgBlock, events, history>>
    /\ UNCHANGED lifecycle
    /\ UNCHANGED rpcVars
    /\ UNCHANGED amountVars
    /\ UNCHANGED probeVars
    /\ UNCHANGED verifierVars

\* ---- EvmFallbackCrawlerService -------------------------------------------
\* The other chain is served by the verifier only: transaction "z" lies in
\* its block OtherBlock, and its endpoints report the head OtherHead.
OtherBlock == 2
OtherHead == 3
OtherHash == 91
HashesOf(c) == IF c = ChainId THEN {"x", "y"} ELSE {"z"}

\* getTransactionReceipt: the block that holds the transaction on the
\* endpoint's chain, or Nil when the endpoint returns null.
ReceiptBlock(c, h, view) ==
    IF c = ChainId
    THEN LET in == {b \in 1..view : \E i \in DOMAIN TxAt(b, Version(b)) :
                                       TxAt(b, Version(b))[i] = h}
         IN  IF in = {} THEN Nil ELSE CHOOSE b \in in : TRUE
    ELSE IF h \in {"z", "w"} THEN OtherBlock ELSE Nil

FetchBlock(c, b, view) == IF c = ChainId THEN GetBlock(b, view) ELSE OtherHash

\* getChainConfig(network).requiredConfirmations.
ConfigReq(c) == TableReq

\* createTransactionEntity.
createTransactionEntity(c, h, blockNumber, blockHash, latest) ==
    LET confirmations == latest - blockNumber + 1 IN
    [transactionHash |-> h,
     chainId |-> c,
     blockNumber |-> blockNumber,
     blockHash |-> blockHash,
     confirmations |-> confirmations,
     requireConfirmations |-> ConfigReq(c),
     status |-> Status(confirmations, ConfigReq(c))]

\* transactionRepository.save of a new entity: an insert, which throws on
\* the unique index (the caller catches and reports found = false).
SaveEntity(tbl, row) ==
    IF UniqueViolation(tbl, row.transactionHash) THEN tbl ELSE tbl \cup {row}

\* A lookup that finds no row.
ExistsNever(tbl, c, h) == FALSE

\* checkAndSaveMissingTransaction(chainId, transactionHash).
Exists(tbl, c, h) == \E q \in tbl : q.chainId = c /\ q.transactionHash = h

Verified(tbl, c, h, view, latest) ==
    IF Exists(tbl, c, h) THEN tbl
    ELSE IF ReceiptBlock(c, h, view) = Nil THEN tbl
    ELSE SaveEntity(tbl, createTransactionEntity(c, h, ReceiptBlock(c, h, view),
                                    FetchBlock(c, ReceiptBlock(c, h, view), view),
                                    latest))

checkAndSaveMissingTransaction ==
    /\ \E c \in {ChainId, OtherChainId} : \E h \in HashesOf(c) :
          IF Exists(table, c, h)
          THEN UNCHANGED <<table, sinceDelete>>
          ELSE \E view \in Views :
               \E latest \in (IF c = ChainId THEN Views ELSE {OtherHead}) :
                  /\ table' = Verified(table, c, h, view, latest)
                  /\ sinceDelete' = IF pc = "rewind" /\ table' # table
                                    THEN sinceDelete \cup {h} ELSE sinceDelete
    /\ UNCHANGED <<chainHead, fork, redis, deletedRows, upserted, persisted>>
    /\ UNCHANGED crawlerVars
    /\ UNCHANGED lifecycle
    /\ UNCHANGED rpcVars
    /\ UNCHANGED amountVars
    /\ UNCHANGED probeVars
    /\ UNCHANGED verifierVars

\* A transaction hash that occurs on both chains: the other chain holds a
\* transaction with the hash of "x" in its block OtherBlock.
SharedHash == "x"

\* checkAndSaveMissingTransaction(OtherChainId, SharedHash).
VerifyShared ==
    /\ table' = IF Exists(table, OtherChainId, SharedHash) THEN table
                ELSE SaveEntity(table,
                        createTransactionEntity(OtherChainId, SharedHash,
                                                OtherBlock, OtherHash, OtherHead))
    /\ sinceDelete' = IF pc = "rewind" /\ table' # table
                      THEN sinceDelete \cup {SharedHash} ELSE sinceDelete
    /\ UNCHANGED <<chainHead, fork, redis, deletedRows, upserted, persisted>>
    /\ UNCHANGED crawlerVars
    /\ UNCHANGED lifecycle
    /\ UNCHANGED rpcVars
    /\ UNCHANGED amountVars
    /\ UNCHANGED probeVars
    /\ UNCHANGED verifierVars

\* ---- checkAndSaveMissingTransaction, await by await -----------------------
\* Transaction "w" of the other chain emits two Deposit/Withdraw logs; every
\* other transaction emits one.
Logs(h) == IF h = "w" THEN 2 ELSE 1

CallHashes(c) == IF c = ChainId THEN HashesOf(c) ELSE HashesOf(c) \cup {"w"}

\* What is left of a call when it has returned: its arguments, whether it
\* made an RPC call, and the value it returned.
Returned(call, found, transaction) ==
    [NoCall EXCEPT !.pc = "done", !.chainId = call.chainId,
                   !.transactionHash = call.transactionHash, !.rpc = call.rpc,
                   !.found = found, !.transaction = transaction]

\* Lines 490-504: a call for one of the chains arrives and looks the row up.
findByChainIdAndTransactionHash(t, chains) ==
    /\ calls[t].pc = "idle"
    /\ \E c \in chains : \E h \in CallHashes(c) :
          LET call == [NoCall EXCEPT !.chainId = c, !.transactionHash = h] IN
          IF Exists(table, c, h)
          THEN calls' = [calls EXCEPT ![t] =
                            Returned(call, TRUE, <<RowOf(table, h)>>)]
          ELSE calls' = [calls EXCEPT ![t] = [call EXCEPT !.pc = "fetch"]]
    /\ UNCHANGED <<chainHead, fork, table, redis>>
    /\ UNCHANGED history
    /\ UNCHANGED crawlerVars
    /\ UNCHANGED lifecycle
    /\ UNCHANGED rpcVars
    /\ UNCHANGED amountVars
    /\ UNCHANGED probeVars

\* Lines 506-577: the receipt, its tracked logs, the block and the head are
\* fetched, each from an endpoint of its own, and the entity is built.
fetchTransactionReceipt(t) ==
    /\ calls[t].pc = "fetch"
    /\ LET c == calls[t].chainId
           h == calls[t].transactionHash
       IN  \E view \in Views, blockView \in Views :
           \E latest \in (IF c = ChainId THEN Views ELSE {OtherHead}) :
              LET blockNumber == ReceiptBlock(c, h, view)
                  blockHash == FetchBlock(c, blockNumber, blockView)
                  call == [calls[t] EXCEPT !.rpc = TRUE]
              IN  calls' = [calls EXCEPT ![t] =
                     IF blockNumber = Nil \/ blockHash = NoHash
                     THEN Returned(call, FALSE, <<>>)
                     ELSE [call EXCEPT
                             !.pc = "save",
                             !.logs = Logs(h),
                             !.entity = <<createTransactionEntity(
                                            c, h, blockNumber, blockHash, latest)>>]]
    /\ UNCHANGED <<chainHead, fork, table, redis>>
    /\ UNCHANGED history
    /\ UNCHANGED crawlerVars
    /\ UNCHANGED lifecycle
    /\ UNCHANGED rpcVars
    /\ UNCHANGED amountVars
    /\ UNCHANGED probeVars

\* Lines 566-603: one pass of the loop over the parsed events - the insert
\* of the entity - and, after the last pass or in the catch clause, the return.
saveTransaction(t) ==
    /\ calls[t].pc = "save"
    /\ LET row == calls[t].entity[1] IN
       IF UniqueViolation(table, row.transactionHash)
       THEN /\ calls' = [calls EXCEPT ![t] = Returned(calls[t], FALSE, <<>>)]
            /\ UNCHANGED table
       ELSE /\ table' = table \cup {row}
            /\ LET saved == Append(calls[t].savedTransactions, row) IN
               calls' = [calls EXCEPT ![t] =
                  IF Len(saved) = calls[t].logs
                  THEN Returned(calls[t], TRUE, <<saved[1]>>)
                  ELSE [calls[t] EXCEPT !.savedTransactions = saved]]
    /\ UNCHANGED <<chainHead, fork, redis>>
    /\ UNCHANGED history
    /\ UNCHANGED crawlerVars
    /\ UNCHANGED lifecycle
    /\ UNCHANGED rpcVars
    /\ UNCHANGED amountVars
    /\ UNCHANGED probeVars

VerifyOn(chains) ==
    \E t \in Tasks :
        \/ findByChainIdAndTransactionHash(t, chains)
        \/ fetchTransactionReceipt(t)
        \/ saveTransaction(t)

Verify == VerifyOn({ChainId, OtherChainId})

\* The calls for the chain the crawler runs on.
VerifyOwnChain == VerifyOn({ChainId})

\* ---- callRpc ---------------------------------------------------------------
\* What f does on an endpoint: it returns, or it throws a value. A thrown
\* value is an Error or not, and a message is the set of the fragments the
\* classifiers look for that occur in it.
Messages ==
    {{"429"}, {"has been pruned"}, {"disconnect"}, {"failed to detect network"},
     {"internal"}, {"Internal"}, {"timeout"}}

Returns == [returns |-> TRUE, isError |-> FALSE, message |-> {}]

Outcomes ==
    {Returns}
      \cup {[returns |-> FALSE, isError |-> TRUE, message |-> m] : m \in Messages}
      \cup {[returns |-> FALSE, isError |-> FALSE, message |-> {}]}

RECURSIVE Lists(_)
Lists(n) ==
    IF n = 0 THEN {<<>>}
    ELSE Lists(n - 1) \cup
         {Append(l, o) : l \in {k \in Lists(n - 1) : Len(k) = n - 1}, o \in Outcomes}

toLowerCase(message) ==
    {IF w = "Internal" THEN "internal" ELSE w : w \in message}

isRateLimitError(err) == err.isError /\ "429" \in err.message
isPrunedError(err) == err.isError /\ "has been pruned" \in err.message
isDisconnectError(err) == err.isError /\ "disconnect" \in err.message
isDetectNetworkError(err) == err.isError /\ "failed to detect network" \in err.message
isJsonRpcProviderError(err) == err.isError /\ "internal" \in toLowerCase(err.message)

\* A catch clause that moves on to the next endpoint after any error.
isRecoverableAny(err) == TRUE

\* The condition of the catch clause, lines 49-55.
isRecoverable(err) ==
    \/ isRateLimitError(err) \/ isPrunedError(err) \/ isDisconnectError(err)
    \/ isDetectNetworkError(err) \/ isJsonRpcProviderError(err)

InitRpc ==
    /\ InitCrawler
    /\ rpcUrls \in Lists(MaxEndpoints)
    /\ rpcAt = 1
    /\ lastError = 0
    /\ rpcCalled = <<>>
    /\ rpcResult = NoResult
    /\ amountCase = NoCase
    /\ probed = NoProbe

\* One iteration of the for loop, lines 44-65.
TryEndpoint ==
    /\ rpcResult = NoResult
    /\ rpcAt <= Len(rpcUrls)
    /\ rpcCalled' = Append(rpcCalled, rpcAt)
    /\ LET outcome == rpcUrls[rpcAt] IN
         IF outcome.returns
         THEN /\ rpcResult' = [kind |-> "return", endpoint |-> rpcAt]
              /\ UNCHANGED <<rpcAt, lastError>>
         ELSE IF isRecoverable(outcome)
         THEN /\ lastError' = rpcAt
              /\ rpcAt' = rpcAt + 1
              /\ UNCHANGED rpcResult
         ELSE /\ rpcResult' = [kind |-> "throw", endpoint |-> rpcAt]
              /\ UNCHANGED <<rpcAt, lastError>>
    /\ UNCHANGED rpcUrls
    /\ UNCHANGED <<chainHead, fork, table, redis>>
    /\ UNCHANGED crawlerVars
    /\ UNCHANGED history
    /\ UNCHANGED lifecycle
    /\ UNCHANGED verifierVars
    /\ UNCHANGED amountVars
    /\ UNCHANGED probeVars

\* Lines 66-69: the list is exhausted; endpoint 0 stands for the new
\* Error('All RPC calls failed').
Exhausted ==
    /\ rpcResult = NoResult
    /\ rpcAt > Len(rpcUrls)
    /\ rpcResult' = [kind |-> "throw", endpoint |-> lastError]
    /\ UNCHANGED <<rpcUrls, rpcAt, lastError, rpcCalled>>
    /\ UNCHANGED <<chainHead, fork, table, redis>>
    /\ UNCHANGED crawlerVars
    /\ UNCHANGED history
    /\ UNCHANGED lifecycle
    /\ UNCHANGED verifierVars
    /\ UNCHANGED amountVars
    /\ UNCHANGED probeVars

NextRpc == TryEndpoint \/ Exhausted

SpecRpc == InitRpc /\ [][NextRpc]_vars

\* ---- the amount of a row ---------------------------------------------------
\* A Deposit/Withdraw log carries the arguments amount (uint256) and decimals
\* (uint8). A decimal string is kept as the pair <<units, decimals>> that
\* stands for units / 10^decimals.
RECURSIVE Pow10(_)
Pow10(n) == IF n = 0 THEN 1 ELSE 10 * Pow10(n - 1)

\* extractRawAmount and extractDecimals: an argument that is 0 is falsy and
\* is not extracted.
extractRawAmount(args) == IF args[1] # 0 THEN args[1] ELSE Undefined
extractDecimals(args) == IF args[2] # 0 THEN args[2] ELSE Undefined

\* ethers.formatUnits(rawAmount, decimals).
formatUnits(rawAmount, decimals) == <<rawAmount, decimals>>

\* extractAmount.
extractAmount(args) ==
    IF extractRawAmount(args) = Undefined THEN <<>>
    ELSE formatUnits(extractRawAmount(args),
                     IF extractDecimals(args) = Undefined THEN DefaultDecimals
                     ELSE extractDecimals(args))

\* parseEvent of DepositEventParser and WithdrawEventParser.
parseEvent(args) ==
    [amount |-> extractAmount(args),
     rawAmount |-> extractRawAmount(args),
     decimals |-> extractDecimals(args)]

\* The value the column amount, numeric(65,18), holds for a decimal string:
\* the string rounded to the scale of the column, in units of 10^-scale;
\* the column default 0 for a field that is not set.
NumericAmount(amount) ==
    IF amount = <<>> THEN 0
    ELSE (2 * amount[1] * Pow10(AmountScale) + Pow10(amount[2]))
             \div (2 * Pow10(amount[2]))

\* The value the column raw_amount holds.
NumericRaw(rawAmount) == IF rawAmount = Undefined THEN 0 ELSE rawAmount

\* The row the crawler inserts, lines 289-304: the parsed event is spread
\* into the row; it has no field tokenDecimals, so the column takes its
\* default.
CrawlerAmounts(event) ==
    [amount |-> NumericAmount(event.amount),
     rawAmount |-> NumericRaw(event.rawAmount),
     tokenDecimals |-> DefaultDecimals]

\* The row the verifier inserts, lines 749-761.
VerifierAmounts(event) ==
    [amount |-> NumericAmount(event.amount),
     rawAmount |-> NumericRaw(event.rawAmount),
     tokenDecimals |-> IF event.decimals = Undefined THEN DefaultDecimals
                       ELSE event.decimals]

InitAmount ==
    /\ InitCrawler
    /\ InitCall
    /\ \E rawAmount \in 0..MaxRaw, decimals \in 0..MaxDecimals :
          amountCase = [NoCase EXCEPT !.stage = "log",
                                      !.args = <<rawAmount, decimals>>]
    /\ probed = NoProbe

\* Following a log changes nothing else.
ProgramUnchanged ==
    /\ UNCHANGED <<chainHead, fork, table, redis>>
    /\ UNCHANGED crawlerVars
    /\ UNCHANGED history
    /\ UNCHANGED lifecycle
    /\ UNCHANGED rpcVars
    /\ UNCHANGED verifierVars
    /\ UNCHANGED probeVars

\* parseEvents: the log is parsed.
ParseLog ==
    /\ amountCase.stage = "log"
    /\ amountCase' = [amountCase EXCEPT !.stage = "parsed",
                                        !.parsed = <<parseEvent(amountCase.args)>>]
    /\ ProgramUnchanged

\* saveState inserts the row of the parsed event.
CrawlerRow ==
    /\ amountCase.stage = "parsed"
    /\ amountCase' = [amountCase EXCEPT
                         !.stage = "crawler",
                         !.row = <<CrawlerAmounts(amountCase.parsed[1])>>]
    /\ ProgramUnchanged

\* createTransactionEntity builds the row of the parsed event and
\* transactionRepository.save inserts it.
VerifierRow ==
    /\ amountCase.stage = "parsed"
    /\ amountCase' = [amountCase EXCEPT
                         !.stage = "verifier",
                         !.row = <<VerifierAmounts(amountCase.parsed[1])>>]
    /\ ProgramUnchanged

NextAmount == ParseLog \/ CrawlerRow \/ VerifierRow

SpecAmount == InitAmount /\ [][NextAmount]_vars

Next ==
    \/ Mine \/ Reorg \/ Start
    \/ GetLatestBlockNumber \/ checkForReorg
    \/ RollbackDelete \/ RollbackRewind \/ Resume
    \/ fetchEvents \/ saveBlockMap \/ saveState \/ Advance
    \/ CycleCompleted \/ RestartTimer \/ CycleError \/ RetryTimer
    \/ checkAndSaveMissingTransaction

Spec == Init /\ [][Next]_vars

\* The crawler and the verifier with a checkpoint load that can fail and
\* with restarts of the process.
NextBoot ==
    \/ Mine \/ Reorg \/ Start \/ StartLoadFails \/ ProcessRestart
    \/ GetLatestBlockNumber \/ checkForReorg
    \/ RollbackDelete \/ RollbackRewind \/ Resume
    \/ fetchEvents \/ saveBlockMap \/ saveState \/ Advance
    \/ CycleCompleted \/ RestartTimer \/ CycleError \/ RetryTimer
    \/ checkAndSaveMissingTransaction

SpecBoot == Init /\ [][NextBoot]_vars

\* Verifier calls that run concurrently with one another on a chain that is
\* not reorganised, while the crawler is not running.
NextVerify == Mine \/ Verify

SpecVerify == Init /\ [][NextVerify]_vars

\* The calls for the crawler's chain next to the crawler, under a fixed
\* configuration.
NextConcurrent ==
    \/ Mine \/ StartSame
    \/ GetLatestBlockNumber \/ checkForReorg
    \/ RollbackDelete \/ RollbackRewind \/ Resume
    \/ fetchEvents \/ saveBlockMap \/ saveState \/ Advance
    \/ CycleCompleted \/ RestartTimer
    \/ VerifyOwnChain

SpecConcurrent == Init /\ [][NextConcurrent]_vars

\* The crawler under start() and stop() calls, with up to two crawl()
\* invocations in flight; the configuration is the same at every start(),
\* the chain is not reorganised and the verifier is not called.
NextLoops ==
    \/ Mine \/ StartSame \/ stop \/ Interleave
    \/ GetLatestBlockNumber \/ checkForReorg
    \/ RollbackDelete \/ RollbackRewind \/ Resume
    \/ fetchEvents \/ saveBlockMap \/ saveState \/ Advance
    \/ CycleCompleted \/ RestartTimer \/ CycleError \/ RetryTimer

SpecLoops == Init /\ [][NextLoops]_vars

\* The crawler under start() and stop() calls, with up to two crawl()
\* invocations in flight, on a chain that may be reorganised from the start
\* block on; no call fails.
NextDeep ==
    \/ Mine \/ ReorgAtStartBlock \/ StartSame \/ stop \/ Interleave
    \/ GetLatestBlockNumber \/ checkForReorg
    \/ RollbackDelete \/ RollbackRewind \/ Resume
    \/ fetchEvents \/ saveBlockMap \/ saveState \/ Advance
    \/ CycleCompleted \/ RestartTimer

SpecDeep == Init /\ [][NextDeep]_vars

\* The crawler of one chain under a fixed configuration, next to verifier
\* calls for the other chain about a transaction hash both chains hold.
NextShared ==
    \/ Mine \/ Reorg \/ StartSame
    \/ GetLatestBlockNumber \/ checkForReorg
    \/ RollbackDelete \/ RollbackRewind \/ Resume
    \/ fetchEvents \/ saveBlockMap \/ saveState \/ Advance
    \/ CycleCompleted \/ RestartTimer
    \/ VerifyShared

SpecShared == Init /\ [][NextShared]_vars

\* The crawler under a fixed configuration on a chain that is not
\* reorganised, with the verifier next to it. Blocks keep arriving, start()
\* is called, timers fire, and a call that can fail - an RPC call, a database
\* transaction, a checkpoint write - succeeds when it is retried often enough.
NextLive ==
    \/ Mine \/ StartSame
    \/ GetLatestBlockNumber \/ checkForReorg
    \/ RollbackDelete \/ RollbackRewind \/ Resume
    \/ fetchEvents \/ saveBlockMap \/ saveState \/ Advance
    \/ CycleCompleted \/ RestartTimer \/ CycleError \/ RetryTimer
    \/ checkAndSaveMissingTransaction

Fairness ==
    /\ WF_vars(Mine) /\ WF_vars(StartSame)
    /\ WF_vars(checkForReorg) /\ WF_vars(Resume) /\ WF_vars(CycleCompleted)
    /\ WF_vars(RestartTimer) /\ WF_vars(RetryTimer)
    /\ SF_vars(GetLatestBlockNumber)
    /\ SF_vars(RollbackDelete) /\ SF_vars(RollbackRewind)
    /\ SF_vars(fetchEvents) /\ SF_vars(saveBlockMap)
    /\ SF_vars(saveState) /\ SF_vars(Advance)

SpecLive == Init /\ [][NextLive]_vars /\ Fairness

\* ---- properties -----------------------------------------------------------

\* C1: in every reachable state of the table - after crawler batches, replays
\* of a persisted window, rollbacks and verifier calls in any order - there is
\* at most one row for each transactionHash.
Uniqueness ==
    \A r \in table : \A q \in table :
        r.transactionHash = q.transactionHash => r = q

\* A batch that hit the unique index has committed next to a row the
\* verifier inserted.
UniquenessWitness ==
    /\ pc = "advance" /\ upserted
    /\ \E q \in table : q.chainId = OtherChainId
    /\ Cardinality(table) = 3

\* C2: no row of the crawler's chain has a blockNumber greater than the
\* checkpoint lastProcessedBlock, in every observable state.
CheckpointDominatesData ==
    \A q \in table : q.chainId = ChainId => q.blockNumber <= lastProcessedBlock

\* C3: when the rollback for a reorg at R completes, no row of the chain with
\* blockNumber >= R remains, the cache has no entry >= R and the checkpoint
\* is R - 1 in memory and in the store.
RollbackLeavesNoRow ==
    [][(pc = "rewind" /\ pc' = "rolled") =>
          /\ \A q \in table' : q.chainId = ChainId => q.blockNumber < reorgBlock'
          /\ \A n \in DOMAIN blockMap' : n < reorgBlock'
          /\ lastProcessedBlock' = reorgBlock' - 1
          /\ redis' = reorgBlock' - 1]_vars

RolledBack ==
    (pc = "rewind" /\ pc' = "rolled") =>
        /\ \A q \in table' :
              (q.chainId = ChainId /\ q.blockNumber >= reorgBlock')
                  => q.transactionHash \in sinceDelete'
        /\ \A n \in DOMAIN blockMap' : n < reorgBlock'
        /\ lastProcessedBlock' = reorgBlock' - 1
        /\ redis' = reorgBlock' - 1

ResumesAtReorgBlock ==
    (pc = "rolled" /\ pc' = "loop") => fromBlock' = reorgBlock

\* What a rollback does guarantee while a single crawl() invocation runs:
\* when it completes, the only rows of the chain with blockNumber >= R are
\* rows the fallback verifier inserted after the rollback's delete; the cache
\* has no entry >= R, the checkpoint is R - 1 in memory and in the store, and
\* crawling resumes from block R. A second crawl() invocation breaks it.
RollbackComplete == [][RolledBack /\ ResumesAtReorgBlock]_vars

\* A rollback has completed that removed the row of "y" and kept that of "x".
RollbackCompleteWitness ==
    /\ pc = "rolled"
    /\ "y" \in deletedRows
    /\ "x" \in Hashes(table)

\* C4: there is no state in which the rollback's rows are deleted and its
\* cache entries dropped while lastProcessedBlock is still >= R.
RollbackAtomic ==
    pc = "rewind" => lastProcessedBlock < reorgBlock

\* C5: the confirmations of a row never decrease from one state of the table
\* to the next, for every sequence of heads the endpoints return.
ConfirmationsNeverDecrease ==
    [][\A r \in table : \A q \in table' :
          q.transactionHash = r.transactionHash
              => q.confirmations >= r.confirmations]_vars

\* C6: for every row, status = CONFIRMED if and only if confirmations >= the
\* row's own requireConfirmations.
StatusCoherent ==
    \A q \in table :
        (q.status = "CONFIRMED") <=> (q.confirmations >= q.requireConfirmations)

\* C7: for every row, 0 <= confirmations <= requireConfirmations.
ConfirmationsCapped ==
    \A q \in table :
        0 <= q.confirmations /\ q.confirmations <= q.requireConfirmations

\* C8: once a batch is persisted at head H, the row of each of its events has
\* the confirmations H - event.blockNumber + 1 of the event's own block, and
\* is CONFIRMED only if that value reaches the row's requireConfirmations.
OwnBlockConfirmations ==
    pc = "advance" =>
        \A i \in DOMAIN events :
            LET q == RowOf(table, events[i].transactionHash)
                own == latestBlock - events[i].blockNumber + 1
            IN  /\ q.confirmations = own
                /\ q.status = "CONFIRMED" => own >= q.requireConfirmations

Idempotent ==
    pc = "persist" =>
        Persist(Persist(table, events, latestBlock), events, latestBlock)
            = Persist(table, events, latestBlock)

ConflictAbsorbed ==
    (pc = "advance" /\ upserted) =>
        \A i \in DOMAIN events : events[i].transactionHash \in Hashes(table)

CheckpointAdvances ==
    (pc = "advance" /\ upserted /\ pc' = "loop") =>
        (redis' = toBlock /\ lastProcessedBlock' = toBlock)

\* C9: persisting a window again, with the same events, the same block cache
\* and the same head, leaves the table as the first run left it; a batch whose
\* insert hit the unique index commits with a row for each of its events, and
\* the checkpoint then advances to the end of its window.
ReplayIdempotent ==
    [](Idempotent /\ ConflictAbsorbed) /\ [][CheckpointAdvances]_vars

\* The replay of a window of two events in different blocks has committed
\* through the upsert path and left the table as it was.
ReplayWitness ==
    /\ pc = "advance" /\ upserted /\ ~persisted
    /\ Len(events) = 2
    /\ events[1].blockNumber # events[2].blockNumber

\* C10: a batch that fails at any step - log query, block fetch, persist
\* transaction or checkpoint write - has not changed the table.
FailedBatchLeavesTable ==
    [][(pc \in {"loop", "blocks", "persist", "advance"} /\ pc' = "retry")
          => ~persisted]_vars

\* C11: the checkpoint moves to toBlock, in memory and in the store, only in
\* the step after the persist transaction of the window, when every event of
\* the window has its row; no other step of a batch and no failure of a batch
\* changes the in-memory or the stored checkpoint.
CheckpointAfterPersist ==
    [][/\ (pc = "advance" /\ pc' = "loop") =>
            /\ lastProcessedBlock' = toBlock /\ redis' = toBlock
            /\ \A i \in DOMAIN events : events[i].transactionHash \in Hashes(table)
       /\ (pc \in {"loop", "blocks", "persist"}
             \/ (pc \in {"loop", "blocks", "persist", "advance"} /\ pc' = "retry")) =>
            /\ lastProcessedBlock' = lastProcessedBlock
            /\ redis' = redis]_vars

\* The persist transaction of a window has committed new rows and the
\* checkpoint is still the one from before the window.
CheckpointAfterPersistWitness ==
    /\ pc = "advance" /\ persisted /\ events # <<>>
    /\ lastProcessedBlock < fromBlock /\ redis = lastProcessedBlock

\* C12: from one write of the stored checkpoint to the next its value never
\* decreases, except in the checkpoint write of a rollback, under start() and
\* stop() calls, restart timers and cycle errors.
CheckpointMonotonic ==
    [][redis' >= redis
         \/ (pc = "rewind" /\ pc' = "rolled" /\ parked' = parked)]_vars

\* C16: after stop(), and until start() is called again, the crawl loop
\* fetches no further batch and no timer starts a new cycle.
StopExits ==
    [][(stopped /\ stopped' /\ parked' = parked) =>
          /\ ~(pc = "loop" /\ pc' = "blocks")
          /\ ~(pc \in {"restart", "retry"} /\ pc' = "head")]_vars

\* C13: when checkForReorg returns at the start of a cycle, a block h whose
\* cached hash differs from the canonical hash is covered by the rollback
\* (the returned reorg point is <= h) if and only if h has a cache entry and
\* lastProcessedBlock - reorgDepth < h <= lastProcessedBlock.
ReorgCoverage ==
    [][(pc = "probe" /\ pc' \in {"rollback", "loop"}) =>
          \A h \in DOMAIN blockMap :
              blockMap[h] # Hash(h) =>
                  ((reorgBlock' # Nil /\ reorgBlock' <= h)
                      <=> (lastProcessedBlock - ReorgDepth < h
                             /\ h <= lastProcessedBlock))]_vars

\* What checkForReorg returns when none of its getBlock calls fails.
ProbeResults == {ProbeFrom(0, Nil, view, ReorgDepth) : view \in Views}

\* C14: a cycle in which an RPC call failed on every endpoint aborts, so a
\* cycle that goes on from the reorg probe to a rollback or to its batches -
\* persisting them and advancing the checkpoint - has a probe result that
\* the calls produce without a failure.
RpcFailureAborts ==
    [][(pc = "probe" /\ pc' \in {"rollback", "loop"})
          => reorgBlock' \in ProbeResults]_vars

\* C15: whenever the crawler is between batches, every event of the watched
\* contract in a canonical block b with startBlock <= b <= lastProcessedBlock
\* has a row with its transactionHash.
CrawledPrefixComplete ==
    pc \in {"loop", "restart"} =>
        \A b \in StartBlock..lastProcessedBlock :
            \A i \in DOMAIN TxAt(b, Version(b)) :
                TxAt(b, Version(b))[i] \in Hashes(table)

\* C18: when the crawler runs with a requiredConfirmations other than the one
\* a row was inserted with, every version of the row that the confirmation
\* refresh writes is CONFIRMED if and only if its confirmations reach the
\* row's own requireConfirmations.
RefreshKeepsOwnThreshold ==
    [][(pc = "persist" /\ pc' = "advance") =>
          \A q \in table' \ table :
              (q.chainId = ChainId /\ q.requireConfirmations # requiredConfirmations)
                  => ((q.status = "CONFIRMED")
                         <=> (q.confirmations >= q.requireConfirmations))]_vars

NewRowsVisible ==
    \A i \in DOMAIN events : events[i].transactionHash \in Hashes(table')

UpdatesVisible ==
    \A q \in table :
        (NeedsUpdate(q) /\ ~\E i \in DOMAIN events :
                                events[i].transactionHash = q.transactionHash)
            => RowOf(table', q.transactionHash).confirmations
                   = Min(latestBlock - q.blockNumber + 1, q.requireConfirmations)

\* C19: the step that ends the persist phase of a batch - its commit or its
\* failure - either makes the batch's new rows and the confirmation updates of
\* the earlier rows visible together, or leaves the table as it was.
BatchAtomic ==
    [][(pc = "persist" /\ pc' # "persist") =>
          \/ table' = table
          \/ NewRowsVisible /\ UpdatesVisible]_vars

\* A batch has committed the new row of "y" together with the update of the
\* earlier row of "x" to two confirmations.
BatchAtomicWitness ==
    /\ pc = "advance" /\ persisted /\ ~upserted
    /\ Len(events) = 1 /\ events[1].transactionHash = "y"
    /\ latestBlock = 2
    /\ \E q \in table : q.transactionHash = "x" /\ q.confirmations = 2

\* The error classes that make callRpc move on: 429, pruned, disconnect,
\* failed network detection and "internal" in any letter case.
RecoverableClass(o) ==
    /\ ~o.returns /\ o.isError
    /\ o.message \cap {"429", "has been pruned", "disconnect",
                        "failed to detect network", "internal", "Internal"} # {}

\* The first endpoint that returns or throws an error outside the classes;
\* one past the list when there is none.
Decisive ==
    LET stops == {i \in DOMAIN rpcUrls : ~RecoverableClass(rpcUrls[i])}
    IN  IF stops = {} THEN Len(rpcUrls) + 1
        ELSE CHOOSE i \in stops : \A j \in stops : i <= j

\* C20: callRpc calls the endpoints in list order; it returns the result of
\* the first endpoint that succeeds and throws a non-recoverable error at
\* once, calling no later endpoint in either case; and when every endpoint
\* fails with a recoverable error it throws the error of the last one.
FirstSuccessOrLastError ==
    /\ \A i \in DOMAIN rpcCalled : rpcCalled[i] = i
    /\ rpcResult # NoResult =>
          IF Decisive <= Len(rpcUrls)
          THEN /\ rpcCalled = [i \in 1..Decisive |-> i]
               /\ rpcResult.endpoint = Decisive
               /\ rpcResult.kind =
                     IF rpcUrls[Decisive].returns THEN "return" ELSE "throw"
          ELSE /\ rpcCalled = [i \in 1..Len(rpcUrls) |-> i]
               /\ rpcResult = [kind |-> "throw", endpoint |-> Len(rpcUrls)]

\* The third endpoint returned after a rate-limit error of the first and an
\* "Internal" error of the second.
FirstSuccessWitness ==
    /\ rpcResult = [kind |-> "return", endpoint |-> 3]
    /\ rpcUrls[1].message = {"429"} /\ rpcUrls[2].message = {"Internal"}
    /\ rpcCalled = <<1, 2, 3>>

\* The commit of a batch at head latestBlock leaves every row of the chain
\* either at or above the threshold or with the confirmations
\* min(latestBlock - blockNumber + 1, requireConfirmations) and the status
\* that goes with them.
RefreshSets ==
    (pc = "persist" /\ pc' = "advance") =>
        \A q \in table' :
            (q.chainId = ChainId /\ q.confirmations < requiredConfirmations) =>
                /\ q.confirmations
                      = Min(latestBlock - q.blockNumber + 1, q.requireConfirmations)
                /\ q.status = "PENDING"

\* A PENDING row whose threshold head blockNumber + requireConfirmations - 1
\* every endpoint will report, at a time when the crawler has been started
\* and still has a block to process that every endpoint will report.
PendingBelowHead(h) ==
    /\ pc # "off"
    /\ lastProcessedBlock < MaxHeight - Lag
    /\ \E q \in table :
          /\ q.transactionHash = h /\ q.chainId = ChainId
          /\ q.status = "PENDING"
          /\ q.blockNumber + q.requireConfirmations - 1 <= MaxHeight - Lag

Confirmed(h) ==
    \E q \in table : q.transactionHash = h /\ q.status = "CONFIRMED"

\* C17: under a fixed configuration, without reorg and with calls that
\* eventually succeed, every PENDING row of the chain becomes CONFIRMED once
\* the head has reached blockNumber + requireConfirmations - 1; each batch
\* committed at head H sets the confirmations of every row below the
\* threshold to min(H - blockNumber + 1, requireConfirmations).
PendingBecomesConfirmed ==
    /\ [][RefreshSets]_vars
    /\ \A h \in HashesOf(ChainId) : PendingBelowHead(h) ~> Confirmed(h)

\* A batch without events has committed and its refresh has taken the row of
\* "x" to two confirmations and CONFIRMED.
PendingBecomesConfirmedWitness ==
    /\ pc = "advance" /\ events = <<>> /\ persisted
    /\ \E q \in table :
          /\ q.transactionHash = "x" /\ q.status = "CONFIRMED"
          /\ q.confirmations = 2 /\ q.requireConfirmations = 2

\* C21: when start() begins a crawl, lastProcessedBlock is the value of the
\* checkpoint store when one is present, otherwise the highest blockNumber of
\* the chain's rows, otherwise startBlock - 1; and in every case, a failure
\* of the store or table read included, it is the value the checkpoint store
\* holds after startup.
StartupCheckpoint ==
    [][(pc = "off" /\ pc' = "head") =>
          /\ lastProcessedBlock' = IF redis # Nil THEN redis
                                    ELSE MaxBlockNumber(table)
          /\ redis' = lastProcessedBlock']_vars

\* C22: a verification that has built the entities of a transaction with
\* n >= 1 tracked logs, and whose first insert does not meet a row that
\* another writer has inserted meanwhile, returns after n inserts with
\* found = true and the first row, and that row is in the table - also when
\* n >= 2.
VerifyPersistsEvents ==
    [][\A t \in Tasks :
          (/\ calls[t].pc = "save" /\ calls'[t].pc = "done"
           /\ \/ calls[t].savedTransactions # <<>>
              \/ calls[t].transactionHash \notin Hashes(table)) =>
              /\ calls'[t].found
              /\ Len(calls[t].savedTransactions) + 1 = calls[t].logs
              /\ calls'[t].transaction = <<calls[t].entity[1]>>
              /\ calls[t].entity[1] \in table']_vars

VerifierSucceeds ==
    \A t \in Tasks :
        (calls[t].pc = "save" /\ calls'[t].pc = "done" /\ calls[t].logs = 1)
            => calls'[t].found

OneRowEach ==
    \A h \in Hashes(table) :
        Cardinality({q \in table : q.transactionHash = h}) = 1

BatchCommitted ==
    pc = "advance" =>
        \A i \in DOMAIN events : events[i].transactionHash \in Hashes(table)

\* C23: when verifications of one transaction run concurrently with one
\* another or with a crawler batch that contains the transaction, one row
\* results for the transaction, the crawler's batch commits with its rows,
\* and every verification that gets as far as its insert returns found = true.
WritesReconciled ==
    [](OneRowEach /\ BatchCommitted) /\ [][VerifierSucceeds]_vars

\* C24: a call of verify that arrives when a row with its (chainId, txHash)
\* exists returns found = true with that row, without an RPC call and
\* without a write: the table after the call is the table before it, so a
\* second call for a transaction leaves the table as the first call left it.
ExistingRowReturned ==
    [][\A t \in Tasks :
          (/\ calls[t].pc = "idle" /\ calls'[t].pc # "idle"
           /\ \E q \in table : /\ q.chainId = calls'[t].chainId
                                /\ q.transactionHash = calls'[t].transactionHash) =>
              /\ calls'[t].pc = "done" /\ calls'[t].found
              /\ calls'[t].transaction =
                    <<CHOOSE q \in table :
                         /\ q.chainId = calls'[t].chainId
                         /\ q.transactionHash = calls'[t].transactionHash>>
              /\ ~calls'[t].rpc
              /\ table' = table]_vars

\* The second call for "w" has returned the row that the first call, which
\* failed at its second insert, left in the table.
ExistingRowWitness ==
    /\ calls[1] = Returned([chainId |-> OtherChainId, transactionHash |-> "w",
                             rpc |-> TRUE], FALSE, <<>>)
    /\ calls[2].pc = "done" /\ calls[2].transactionHash = "w"
    /\ calls[2].found /\ ~calls[2].rpc
    /\ calls[2].transaction = <<RowOf(table, "w")>>

\* C25: a row leaves the table only in the delete of the crawler's reorg
\* rollback, and that delete removes exactly the rows of the crawler's chain
\* with blockNumber >= R; no step of the fallback verifier and no persist
\* step of a batch removes a row.
OnlyRollbackDeletes ==
    [][/\ (Hashes(table) \ Hashes(table') # {}) =>
             (pc = "rollback" /\ pc' = "rewind")
       /\ (pc = "rollback" /\ pc' = "rewind" /\ parked' = parked) =>
             table' = {q \in table :
                          q.chainId # ChainId \/ q.blockNumber < reorgBlock}]_vars

\* The rollback's delete for a reorg at block 2 has removed the row of "y"
\* in block 2 and kept the row of "x" and a row of the other chain.
OnlyRollbackDeletesWitness ==
    /\ pc = "rewind" /\ reorgBlock = 2
    /\ deletedRows = {"y"}
    /\ "x" \in Hashes(table)
    /\ \E q \in table : q.chainId = OtherChainId

\* C26: an event whose block is missing from the block cache at persist time
\* is skipped, so no row of the table has an empty blockHash.
NoEmptyBlockHash ==
    \A q \in table : q.blockHash # NoHash

\* C27: in every reachable state, the states after a restart of the process
\* included, the block cache has an entry for the block of every row of the
\* chain with confirmations < requiredConfirmations whose blockNumber is
\* greater than head - reorgDepth.
CacheCoversPendingRows ==
    \A q \in table :
        (/\ q.chainId = ChainId
         /\ q.confirmations < requiredConfirmations
         /\ q.blockNumber > chainHead - ReorgDepth)
            => q.blockNumber \in DOMAIN blockMap

\* C28: for every row, written by the crawler or by the fallback verifier,
\* amount equals rawAmount / 10^tokenDecimals at the scale of the column,
\* tokenDecimals being the value stored on the row - also for logs whose
\* decimals argument is 0 or differs from the default.
AmountCoherent ==
    amountCase.stage \in {"crawler", "verifier"} =>
        LET row == amountCase.row[1] IN
        row.amount = NumericAmount(<<row.rawAmount, row.tokenDecimals>>)

\* The heights checkForReorg may compare: the reorgDepth heights from
\* lastProcessedBlock down, not below startBlock, that have a cache entry.
ProbeWindow ==
    {h \in StartBlock..lastProcessedBlock :
        h > lastProcessedBlock - ReorgDepth /\ h \in DOMAIN blockMap}

\* The height whose getBlock call failed, 0 when none did: a failed call
\* ends the examination above its height.
FailedHeight ==
    IF lastProcessedBlock - probed.failAt \in ProbeWindow
    THEN lastProcessedBlock - probed.failAt ELSE 0

\* The lowest mismatching height above the first matching one, walking down.
WalkResult ==
    LET examined == {h \in ProbeWindow : h > FailedHeight}
        matching == {h \in examined : GetBlock(h, probed.view) = blockMap[h]}
        firstMatch == IF matching = {} THEN 0
                ELSE CHOOSE h \in matching : \A g \in matching : g <= h
        mismatching == {h \in examined : h > firstMatch}
    IN  IF mismatching = {} THEN Nil
        ELSE CHOOSE h \in mismatching : \A g \in mismatching : h <= g

ProbeBounded ==
    (pc = "probe" /\ pc' = "rollback" /\ parked' = parked) =>
        /\ reorgBlock' >= StartBlock
        /\ reorgBlock' > lastProcessedBlock - ReorgDepth

\* rollbackReorg rewinds the checkpoint by at most reorgDepth blocks and not
\* below startBlock - 1.
RewindBounded ==
    (pc = "rewind" /\ pc' = "rolled" /\ parked' = parked) =>
        /\ lastProcessedBlock' >= lastProcessedBlock - ReorgDepth
        /\ lastProcessedBlock' >= StartBlock - 1

\* rollbackReorg deletes no row at or below lastProcessedBlock - reorgDepth.
DeleteBounded ==
    (pc = "rollback" /\ pc' = "rewind" /\ parked' = parked) =>
        \A q \in table \ table' : q.blockNumber > lastProcessedBlock - ReorgDepth

\* C30: every reorg point R the probe returns satisfies R >= startBlock and
\* R > lastProcessedBlock - reorgDepth; a rollback rewinds the checkpoint by
\* at most reorgDepth blocks and not below startBlock - 1, and deletes no
\* row with blockNumber <= lastProcessedBlock - reorgDepth.
RollbackBounded ==
    [][ProbeBounded /\ RewindBounded /\ DeleteBounded]_vars
\* The first window of a cycle starts at lastProcessedBlock + 1, or at the
\* reorg block after a rollback, and ends at min(f + batchSize - 1, H).
WindowStarts ==
    /\ (pc = "head" /\ pc' = "probe" /\ parked' = parked) =>
          /\ fromBlock' = lastProcessedBlock + 1
          /\ toBlock' = Min(fromBlock' + BatchSize - 1, latestBlock')
    /\ (pc = "rolled" /\ pc' = "loop" /\ parked' = parked) =>
          /\ fromBlock' = reorgBlock
          /\ toBlock' = Min(fromBlock' + BatchSize - 1, latestBlock)

\* A window that is processed holds between 1 and batchSize blocks, none
\* above the head.
WindowShape ==
    pc \in {"blocks", "persist", "advance"} =>
        /\ toBlock = Min(fromBlock + BatchSize - 1, latestBlock)
        /\ toBlock - fromBlock + 1 \in 1..BatchSize

\* The window after [f, t] starts at t + 1, and t is the checkpoint then.
WindowsConsecutive ==
    (pc = "advance" /\ pc' = "loop" /\ parked' = parked) =>
        /\ lastProcessedBlock' = toBlock /\ redis' = toBlock
        /\ fromBlock' = toBlock + 1
        /\ toBlock' = Min(fromBlock' + BatchSize - 1, latestBlock)

\* A cycle that completes has lastProcessedBlock = H.
CycleEndsAtHead ==
    (pc = "loop" /\ pc' = "restart" /\ parked' = parked) =>
        lastProcessedBlock = latestBlock

\* The last window of a cycle sets lastProcessedBlock = H, and a cycle whose
\* first window would start above H processes no window and keeps
\* lastProcessedBlock.
LastWindowReachesHead ==
    /\ (pc = "advance" /\ pc' = "loop" /\ parked' = parked /\ fromBlock' > latestBlock) =>
          lastProcessedBlock' = latestBlock
    /\ (pc = "loop" /\ pc' = "restart" /\ parked' = parked) =>
          /\ lastProcessedBlock' = lastProcessedBlock
          /\ fromBlock > latestBlock
    /\ (pc = "loop" /\ pc' = "blocks" /\ parked' = parked) =>
          fromBlock <= latestBlock

WindowCached ==
    (pc = "blocks" /\ pc' = "persist" /\ parked' = parked) =>
        \E view \in Views :
            \A n \in fromBlock..toBlock :
                n > latestBlock - ReorgDepth =>
                    n \in DOMAIN blockMap' \/ GetBlock(n, view) = NoHash

\* Until the cycle completes, no step of it drops an entry above
\* H - reorgDepth.
WindowKept ==
    (/\ pc \in {"loop", "blocks", "persist", "advance"}
     /\ pc' \in {"loop", "blocks", "persist", "advance", "restart"}
     /\ parked' = parked) =>
        \A n \in DOMAIN blockMap :
            n > latestBlock - ReorgDepth =>
                n \in DOMAIN blockMap' /\ blockMap'[n] = blockMap[n]

\* A cycle that completes leaves no entry at or below H - reorgDepth.
CacheTrimmed ==
    (pc = "loop" /\ fromBlock > latestBlock) =>
        \A n \in DOMAIN blockMap : n > latestBlock - ReorgDepth

\* C32: after a cycle completes without error at head H, the block cache has
\* an entry for every height processed in the cycle with
\* H - reorgDepth < n <= H for which the RPC returned a block, and no entry
\* with number <= H - reorgDepth.
CacheHoldsReorgWindow ==
    []CacheTrimmed /\ [][WindowCached /\ WindowKept]_vars
\* C33: under a fixed chain configuration, a write of the crawler - bulk
\* insert, upsert on conflict, confirmation refresh - leaves the blockNumber
\* and blockHash of every row that exists as they are, does not lower its
\* confirmations and does not turn a CONFIRMED row back to PENDING.
CrawlerWritesOnlyRaise ==
    [][(pc = "persist" /\ pc' = "advance") =>
          \A r \in table : \A q \in table' :
              q.transactionHash = r.transactionHash =>
                  /\ q.blockNumber = r.blockNumber
                  /\ q.blockHash = r.blockHash
                  /\ q.confirmations >= r.confirmations
                  /\ ~(r.status = "CONFIRMED" /\ q.status = "PENDING")]_vars
\* A cycle has ended: its restart timer or its retry timer is pending.
CycleEnded == pc \in {"restart", "retry"}

\* C34: after a cycle has ended - normally, or with an error at any of its
\* steps - a new cycle eventually starts, stop() not being called, however
\* many cycles have failed before.
CycleRestarts == CycleEnded ~> (pc = "head")

\* A cycle has ended with an error after an earlier cycle made progress.
CycleRestartsWitness ==
    /\ pc = "retry" /\ ~isRunning /\ ~stopped
    /\ lastProcessedBlock >= StartBlock
\* A crawl() invocation at position p is inside a cycle: past its isRunning
\* test and not yet at the timer that ends the cycle.
InCycle(p) ==
    p \in {"head", "probe", "rollback", "rewind", "rolled", "loop", "blocks",
           "persist", "advance"}

\* C35: at most one crawl cycle of the instance is in progress at any time,
\* under every sequence of start() calls, stop() calls, restart timers and
\* retry timers.
OneCycleInProgress == ~(InCycle(pc) /\ InCycle(parked.pc))
\* A step taken while the crawler is running that is neither a step of the
\* cycle nor of the chain nor of a verifier call: a start() call.
StartWhileRunning ==
    /\ isRunning /\ isRunning'
    /\ pc' = pc /\ parked' = parked
    /\ chainHead' = chainHead /\ fork' = fork
    /\ table' = table /\ calls' = calls

\* C36: start() called while the crawler is running leaves the chain
\* configuration, lastProcessedBlock, the checkpoint and the block cache as
\* they are, also when it passes another configuration.
StartWhileRunningNoEffect ==
    [][StartWhileRunning =>
          /\ requiredConfirmations' = requiredConfirmations
          /\ lastProcessedBlock' = lastProcessedBlock
          /\ redis' = redis
          /\ blockMap' = blockMap]_vars
\* The rows of the chains other than the crawler's.
OtherRows(tbl) == {q \in tbl : q.chainId # ChainId}

\* C37: a batch or a rollback of the crawler of chain A creates, modifies and
\* deletes no row of another chain, also when a log of chain A carries a
\* transaction hash that has a row for chain B.
CrawlerKeepsOtherChains ==
    [][(\/ pc = "persist" /\ pc' = "advance"
        \/ pc = "rollback" /\ pc' = "rewind") =>
          OtherRows(table') = OtherRows(table)]_vars
\* C38: every row the crawler persists with a hash from the block cache
\* carries the hash of the block that held its log: the cached hash equals
\* the blockHash reported on the log, also when the chain is reorganised
\* between the log query and the block fetch of the batch.
RowCarriesLogBlockHash ==
    [][(pc = "persist" /\ pc' = "advance") =>
          \A i \in DOMAIN events :
              events[i].blockNumber \in DOMAIN blockMap =>
                  \E q \in table' :
                      /\ q.transactionHash = events[i].transactionHash
                      /\ q.blockNumber = events[i].blockNumber
                      /\ q.blockHash = events[i].blockHash]_vars
\* C39: a verifier call that returns found = false - unknown chain, missing
\* receipt or block, no tracked event, or an error while saving - has added
\* no row to the table and changed none.
NotFoundLeavesTable ==
    [][\A t \in Tasks :
          (calls[t].pc # "done" /\ calls'[t].pc = "done" /\ ~calls'[t].found) =>
              /\ calls[t].savedTransactions = <<>>
              /\ table' = table]_vars
====
